---- MODULE Spec2Model ----
(***************************************************************************)
(* The ticket -> live-chat hand-off of the support portal.                 *)
(*                                                                         *)
(* Store: the support_tickets collection and the liveChats collection.     *)
(* Clients: one browser per user; an admin browser shows TicketManagement  *)
(* or LiveChatInterface, a customer browser shows SupportTickets or        *)
(* LiveChatInterface.  Every handler runs synchronously up to its first    *)
(* await; one action is one store call committing (with either outcome)    *)
(* together with the code that runs until the next await.                  *)
(***************************************************************************)
EXTENDS Integers, Sequences, FiniteSets, TLC

(* ---------------------------------------------------------------- bounds *)
MaxSessions == 2
MaxPending == 1
MaxEdits == 1
MaxMessages == 2

(* ------------------------------------------------------- users, tickets *)
(* the ids the ticket collection hands out, in creation order *)
TicketIds == {1}
Admins == {"a1", "a2"}
Customers == {"c1", "c2"}
(* the customers whose browser is followed; the others only create tickets *)
Watched == {"c1"}
Users == Admins \cup Customers

(* a plausible slip: every signed-in user is taken for an admin *)
currentUserRoleAdmin(u) == "admin"

(* users/<uid>.role *)
currentUserRole(u) == IF u \in Admins THEN "admin" ELSE "customer"

(* absent liveChatId / no document id *)
None == 0
(* a null uid *)
NoUser == "null"

TicketStatus == <<"pending", "in-progress", "resolved">>
SessionStatus == <<"open", "in-progress", "closed">>

(* liveChatSession === null *)
NoSession ==
  [id |-> None, ticketId |-> None, customerId |-> NoUser,
   consultantId |-> NoUser, status |-> "none"]

(* no handleAcceptTicketAndStartChat in flight *)
AcceptIdle ==
  [pc |-> "idle", ticket |-> None, customerId |-> NoUser, empty |-> TRUE, liveChatId |-> None]

(* toast({title}) of a warning or destructive variant, or the closing "Chat Ended!",
   in the browser of u; a step that shows none of these leaves NoToast *)
NoToast == [user |-> NoUser, title |-> "none"]
Shown(u, title) == [user |-> u, title |-> title]

(* no toast at all: the step ends in a rejected promise that no catch block of
   the handler receives, and the browser of u reports an unhandled rejection *)
Unhandled(u) == [user |-> u, title |-> "unhandled rejection"]

(* no handleSendMessage in flight *)
SendIdle == [pc |-> "idle", id |-> None]

(* no handleEndChat in flight *)
EndIdle == [pc |-> "idle", id |-> None, ticketId |-> None]

(* the edit dialog closed: handleEditClick overwrites every field of it *)
EditClosed == [open |-> FALSE, ticket |-> None, status |-> "pending"]

(* SupportPortal.activeView, and the router's catch-all route *)
Home == [name |-> "home", id |-> None]
TicketsView == [name |-> "tickets", id |-> None]
LiveChatView(s) == [name |-> "live-chat", id |-> s]
NotFoundRoute == [name |-> "not-found", id |-> None]

VARIABLES
  tickets,      \* support_tickets: ticket id -> [status, liveChatId, customerId]
  sessions,     \* liveChats: session id -> [ticketId, customerId, consultantId, status]
  view,         \* per user: the view the browser shows
  list,         \* per user: the tickets state of the mounted ticket list
  edit,         \* per admin: the edit dialog of TicketManagement
  acc,          \* per admin: the handleAcceptTicketAndStartChat in flight: where it
                \* is, its ticket argument, liveChatSnapshot.empty and liveChatId
  live,         \* per user: liveChatSession of the mounted LiveChatInterface
  cb,           \* per user: session snapshot callbacks suspended at their await
  endChat,      \* per user: the handleEndChat in flight
  edits,        \* how many times an edit dialog was opened (bounded by MaxEdits)
  toast,        \* the toast() call of the last step: [user, title], or NoToast
  messages,     \* liveChats/<id>/messages: session id -> the documents, in the
                \* order of their creation: [senderId, senderRole, timestamp]
  lastMessageAt,\* session id -> lastMessageAt, as the number of messages of the
                \* session when it was written (0 at creation)
  send,         \* per user: the handleSendMessage in flight
  msgs,         \* per user: the messages state of the mounted LiveChatInterface
  redirected,   \* history, per customer: the tickets for which the auto-redirect
                \* has navigated since the ticket last became in-progress
  deleted,      \* the ids of the liveChats documents that were removed from the
                \* store; the portal has no operation that removes one
  form          \* per customer: isTicketFormOpen of the mounted ChatInterface

vars == <<tickets, sessions, view, list, edit, acc, live, msgs, cb, endChat, edits, toast,
          messages, lastMessageAt, send, redirected, deleted, form>>

(* the messages of the sessions and what sends them *)
chatVars == <<messages, lastMessageAt, send>>

(* ------------------------------------------------------------- helpers *)

(* a plausible slip: a document that was removed is still taken to be there *)
docExistsEver(s) == s \in DOMAIN sessions

(* docSnap.exists() of liveChats/<s> *)
docExists(s) == s \in DOMAIN sessions /\ s \notin deleted

(* a plausible slip: the query looks for chats that are under way only *)
liveChatQueryInProgress(t) ==
  {s \in DOMAIN sessions : /\ s \notin deleted
                           /\ sessions[s].ticketId = t
                           /\ sessions[s].status = "in-progress"}

(* a plausible slip: the query leaves out the chats that were ended *)
liveChatQueryNotClosed(t) ==
  {s \in DOMAIN sessions : /\ s \notin deleted
                           /\ sessions[s].ticketId = t
                           /\ sessions[s].status # "closed"}

(* where('ticketId', '==', ticket.id) on liveChats; docs[0] is any of the answer,
   the document ids being random *)
liveChatQuery(t) == {s \in DOMAIN sessions : s \notin deleted /\ sessions[s].ticketId = t}

(* setActiveView from a handler: it acts on the mounted SupportPortal only;
   LiveChatInterface keeps its state when only its liveChatId prop changes *)
onNavigateToView(u, target) ==
  IF view[u] = NotFoundRoute
  THEN UNCHANGED <<view, list, edit, live, msgs>>
  ELSE /\ view' = [view EXCEPT ![u] = target]
       /\ list' = [list EXCEPT ![u] = IF target = TicketsView /\ view[u] = TicketsView
                                      THEN list[u] ELSE <<>>]
       /\ edit' = IF u \in Admins /\ ~(target = TicketsView /\ view[u] = TicketsView)
                  THEN [edit EXCEPT ![u] = EditClosed] ELSE edit
       /\ live' = [live EXCEPT ![u] = IF target.name = "live-chat" /\ view[u].name = "live-chat"
                                      THEN live[u] ELSE NoSession]
       /\ msgs' = [msgs EXCEPT ![u] = IF target.name = "live-chat" /\ view[u].name = "live-chat"
                                      THEN msgs[u] ELSE <<>>]

(* navigate('/support-portal'): no such route, the catch-all replaces the portal *)
navigateSupportPortal(u) ==
  /\ view' = [view EXCEPT ![u] = NotFoundRoute]
  /\ list' = [list EXCEPT ![u] = <<>>]
  /\ edit' = IF u \in Admins THEN [edit EXCEPT ![u] = EditClosed] ELSE edit
  /\ live' = [live EXCEPT ![u] = NoSession]
  /\ msgs' = [msgs EXCEPT ![u] = <<>>]

(* the history of the redirects once the ticket collection is tk: a ticket
   that enters in-progress starts afresh *)
redirectedAfter(tk) ==
  [c \in Customers |->
     {t \in redirected[c] : ~(tk[t].status = "in-progress" /\ tickets[t].status # "in-progress")}]

Init ==
  /\ tickets = <<>>
  /\ sessions = <<>>
  /\ view = [u \in Users |-> Home]
  /\ list = [u \in Users |-> <<>>]
  /\ edit = [a \in Admins |-> EditClosed]
  /\ acc = [a \in Admins |-> AcceptIdle]
  /\ live = [u \in Users |-> NoSession]
  /\ msgs = [u \in Users |-> <<>>]
  /\ cb = [u \in Users |-> <<>>]
  /\ endChat = [u \in Users |-> EndIdle]
  /\ edits = 0
  /\ toast = NoToast
  /\ messages = <<>>
  /\ lastMessageAt = <<>>
  /\ send = [u \in Users |-> SendIdle]
  /\ redirected = [c \in Customers |-> {}]
  /\ deleted = {}
  /\ form = [c \in Customers |-> FALSE]

(* ------------------------------------------------------ ticket creation *)

(* a plausible slip: the ticket is filed as soon as the assistant proposes it *)
ticketsAfterSuggestionFiled(c) ==
  Append(tickets, [status |-> "pending", liveChatId |-> None, customerId |-> c])

(* support_tickets after sendMessageToAI has answered with a create_ticket
   action: the answer is a value, no document is written for it *)
ticketsAfterSuggestion(c) == tickets

(* handleSendMessage of ChatInterface when the answer of the assistant is the
   action create_ticket: the ticket form opens, filled in from the answer.
   (Tickets are created while there is room for one more.) *)
aiSuggestsTicket(c) ==
  /\ c \in Customers
  /\ view[c] = Home
  /\ ~form[c]
  /\ Len(tickets) + 1 \in TicketIds
  /\ form' = [form EXCEPT ![c] = TRUE]
  /\ tickets' = ticketsAfterSuggestion(c)
  /\ toast' = NoToast
  /\ UNCHANGED <<sessions, view, list, edit, acc, live, msgs, cb, endChat, edits>>
  /\ UNCHANGED <<chatVars, redirected, deleted>>

(* the Cancel button of the ticket form *)
cancelTicketForm(c) ==
  /\ c \in Customers
  /\ form[c]
  /\ form' = [form EXCEPT ![c] = FALSE]
  /\ toast' = NoToast
  /\ UNCHANGED <<tickets, sessions, view, list, edit, acc, live, msgs, cb, endChat, edits>>
  /\ UNCHANGED <<chatVars, redirected, deleted>>

(* handleConfirmTicketCreation, the Confirm & Create Ticket button of the form,
   and the addDoc of createTicketConfirmed *)
createTicketConfirmed(c) ==
  /\ view[c] = Home
  /\ form[c]
  /\ Len(tickets) + 1 \in TicketIds
  /\ \/ /\ tickets' = Append(tickets,
                        [status |-> "pending", liveChatId |-> None, customerId |-> c])
        /\ form' = [form EXCEPT ![c] = FALSE]
        /\ toast' = NoToast
     \/ /\ toast' = Shown(c, "Ticket Creation Failed")
        /\ UNCHANGED <<tickets, form>>
  /\ UNCHANGED <<sessions, view, list, edit, acc, live, msgs, cb, endChat, edits>>
  /\ UNCHANGED <<chatVars, redirected, deleted>>

(* ----------------------------------------------------------- navigation *)

(* the sidebar: any view of the portal, or re-entering the portal *)
onViewChange(u, target) ==
  /\ target \in {Home, TicketsView}
  /\ view[u] # target
  /\ view' = [view EXCEPT ![u] = target]
  /\ list' = [list EXCEPT ![u] = <<>>]
  /\ edit' = IF u \in Admins THEN [edit EXCEPT ![u] = EditClosed] ELSE edit
  /\ live' = [live EXCEPT ![u] = NoSession]
  /\ msgs' = [msgs EXCEPT ![u] = <<>>]
  /\ form' = IF u \in Customers THEN [form EXCEPT ![u] = FALSE] ELSE form
  /\ toast' = NoToast
  /\ UNCHANGED <<tickets, sessions, acc, cb, endChat, edits>>
  /\ UNCHANGED <<chatVars, redirected, deleted>>

(* ------------------------------------------------- admin: TicketManagement *)

(* onSnapshot of the tickets query: setTickets(fetchedTickets) *)
ticketsSnapshot(a) ==
  /\ a \in Admins
  /\ view[a] = TicketsView
  /\ list[a] # tickets
  /\ list' = [list EXCEPT ![a] = tickets]
  /\ toast' = NoToast
  /\ UNCHANGED <<tickets, sessions, view, edit, acc, live, msgs, cb, endChat, edits>>
  /\ UNCHANGED <<chatVars, redirected, deleted, form>>

(* the Join Chat button of an in-progress row *)
joinChat(a, t) ==
  /\ a \in Admins
  /\ view[a] = TicketsView
  /\ t \in DOMAIN list[a]
  /\ list[a][t].status = "in-progress"
  /\ list[a][t].liveChatId # None
  /\ onNavigateToView(a, LiveChatView(list[a][t].liveChatId))
  /\ toast' = NoToast
  /\ UNCHANGED <<tickets, sessions, acc, cb, endChat, edits>>
  /\ UNCHANGED <<chatVars, redirected, deleted, form>>

handleEditClick(a, t) ==
  /\ a \in Admins
  /\ view[a] = TicketsView
  /\ t \in DOMAIN list[a]
  /\ ~edit[a].open
  /\ edits < MaxEdits
  /\ edits' = edits + 1
  /\ edit' = [edit EXCEPT ![a] = [open |-> TRUE, ticket |-> t, status |-> list[a][t].status]]
  /\ toast' = NoToast
  /\ UNCHANGED <<tickets, sessions, view, list, acc, live, msgs, cb, endChat>>
  /\ UNCHANGED <<chatVars, redirected, deleted, form>>

(* Save Changes.  st is editedStatus at the click: the value handleEditClick
   captured, or the one the admin chose in the status <select> since *)
handleSaveEdit(a, st) ==
  /\ a \in Admins
  /\ edit[a].open
  /\ \/ /\ tickets' = [tickets EXCEPT ![edit[a].ticket].status = st]
        /\ redirected' = redirectedAfter(tickets')
        /\ toast' = NoToast
        /\ edit' = [edit EXCEPT ![a] = EditClosed]
     \/ /\ toast' = Shown(a, "Error")
        /\ UNCHANGED <<tickets, edit, redirected>>
  /\ UNCHANGED <<sessions, view, list, acc, live, msgs, cb, endChat, edits>>
  /\ UNCHANGED <<chatVars, deleted, form>>

(* ------------------------------------- admin: handleAcceptTicketAndStartChat *)

(* a plausible slip: the admin who joins an existing chat takes it over *)
liveChatTakenOver(a, s) == [sessions EXCEPT ![s].consultantId = a]

(* liveChats after the branch that joins the existing chat s: the branch takes
   the id of docs[0] and writes no document *)
liveChatReused(a, s) == sessions

(* what the browser of a shows when getDocs(liveChatQuery) fails: the await is
   outside the try blocks of the handler *)
acceptQueryFailed(a) == Unhandled(a)

(* the Accept & Chat button of a pending row, up to the answer of getDocs *)
acceptQuery(a, t) ==
  /\ a \in Admins
  /\ view[a] = TicketsView
  /\ t \in DOMAIN list[a]
  /\ list[a][t].status = "pending"
  /\ acc[a].pc = "idle"
  /\ \/ IF liveChatQuery(t) # {}
        THEN \E s \in liveChatQuery(t) :
               /\ acc' = [acc EXCEPT ![a] = [pc |-> "update", ticket |-> t,
                                             customerId |-> list[a][t].customerId,
                                             empty |-> FALSE, liveChatId |-> s]]
               /\ sessions' = liveChatReused(a, s)
               /\ toast' = NoToast
        ELSE /\ acc' = [acc EXCEPT ![a] = [pc |-> "create", ticket |-> t,
                                           customerId |-> list[a][t].customerId,
                                           empty |-> TRUE, liveChatId |-> None]]
             /\ toast' = NoToast
             /\ UNCHANGED sessions
     \/ /\ toast' = acceptQueryFailed(a)
        /\ UNCHANGED <<acc, sessions>>
  /\ UNCHANGED <<tickets, view, list, edit, live, msgs, cb, endChat, edits>>
  /\ UNCHANGED <<chatVars, redirected, deleted, form>>

(* a plausible slip: the session is created unstaffed *)
newLiveChatDataUnstaffed(a) ==
  [ticketId |-> acc[a].ticket, customerId |-> acc[a].customerId,
   consultantId |-> NoUser, status |-> "open"]

(* newLiveChatData *)
newLiveChatData(a) ==
  [ticketId |-> acc[a].ticket, customerId |-> acc[a].customerId,
   consultantId |-> a, status |-> "open"]

(* addDoc(collection(db, 'liveChats'), newLiveChatData) and its catch *)
acceptCreate(a) ==
  /\ a \in Admins
  /\ acc[a].pc = "create"
  /\ \/ /\ Len(sessions) < MaxSessions
        /\ sessions' = Append(sessions, newLiveChatData(a))
        /\ messages' = Append(messages, <<>>)
        /\ lastMessageAt' = Append(lastMessageAt, 0)
        /\ acc' = [acc EXCEPT ![a].pc = "update", ![a].liveChatId = Len(sessions) + 1]
        /\ toast' = NoToast
     \/ /\ acc' = [acc EXCEPT ![a] = AcceptIdle]
        /\ toast' = Shown(a, "Error")
        /\ UNCHANGED <<sessions, messages, lastMessageAt>>
  /\ UNCHANGED <<tickets, view, list, edit, live, msgs, cb, endChat, edits, send, redirected, deleted, form>>

(* a plausible slip: the reuse path only joins the chat and leaves the ticket *)
ticketAcceptedOnCreateOnly(a) ==
  IF acc[a].empty
  THEN [tickets EXCEPT ![acc[a].ticket].status = "in-progress",
                       ![acc[a].ticket].liveChatId = acc[a].liveChatId]
  ELSE tickets

(* the ticket collection after updateDoc(ticketRef, {status: 'in-progress', liveChatId}) *)
ticketAccepted(a) ==
  [tickets EXCEPT ![acc[a].ticket].status = "in-progress",
                  ![acc[a].ticket].liveChatId = acc[a].liveChatId]

(* a plausible slip: the catch block of the ticket update does not return *)
updateFailedFallsThrough(a) == onNavigateToView(a, LiveChatView(acc[a].liveChatId))

(* the return of the catch block of the ticket update: no navigation *)
updateFailedReturns(a) == UNCHANGED <<view, list, edit, live, msgs>>

(* the ticket update of Accept, its catch, and the navigation that follows a
   success *)
acceptUpdate(a) ==
  /\ a \in Admins
  /\ acc[a].pc = "update"
  /\ acc' = [acc EXCEPT ![a] = AcceptIdle]
  /\ \/ /\ tickets' = ticketAccepted(a)
        /\ redirected' = redirectedAfter(tickets')
        /\ toast' = NoToast
        /\ onNavigateToView(a, LiveChatView(acc[a].liveChatId))
     \/ /\ toast' = Shown(a, "Error")
        /\ updateFailedReturns(a)
        /\ UNCHANGED <<tickets, redirected>>
  /\ UNCHANGED <<sessions, cb, endChat, edits>>
  /\ UNCHANGED <<chatVars, deleted, form>>

(* ------------------------------------------------------ LiveChatInterface *)

(* { id: docSnap.id, ...docSnap.data() } *)
sessionData(s) ==
  [id |-> s, ticketId |-> sessions[s].ticketId, customerId |-> sessions[s].customerId,
   consultantId |-> sessions[s].consultantId, status |-> sessions[s].status]

(* a plausible slip: the check is made for customers only *)
accessDeniedCustomersOnly(u, d) ==
  currentUserRole(u) # "admin" /\ d.customerId # u /\ d.consultantId # u

(* the access check of the session snapshot callback *)
accessDenied(u, d) == d.customerId # u /\ d.consultantId # u

(* a plausible slip: the guard forgets that a consultant may be assigned already *)
joinGuardAnyOpen(u, d) ==
  currentUserRole(u) = "admin" /\ d.status = "open"

(* the guard of the consultant-join write *)
joinGuard(u, d) ==
  currentUserRole(u) = "admin" /\ d.status = "open" /\ d.consultantId = NoUser

(* the callback of onSnapshot(sessionRef), up to its await getDoc.  What runs
   after the await reads only the captured sessionData: when joinGuard fails on
   it, the continuation writes nothing and is not kept *)
sessionSnapshot(u) ==
  /\ view[u].name = "live-chat"
  /\ IF docExists(view[u].id)
     THEN LET d == sessionData(view[u].id) IN
          IF accessDenied(u, d)
          THEN /\ toast' = Shown(u, "Access Denied")
               /\ navigateSupportPortal(u)
               /\ UNCHANGED cb
          ELSE /\ live[u] # d
               /\ live' = [live EXCEPT ![u] = d]
               /\ UNCHANGED msgs
               /\ cb' = [cb EXCEPT ![u] = IF joinGuard(u, d) THEN Append(cb[u], d.id)
                                                             ELSE cb[u]]
               /\ toast' = NoToast
               /\ UNCHANGED <<view, list, edit>>
     ELSE /\ toast' = Shown(u, "Chat Not Found")
          /\ navigateSupportPortal(u)
          /\ UNCHANGED cb
  /\ UNCHANGED <<tickets, sessions, acc, endChat, edits>>
  /\ UNCHANGED <<chatVars, redirected, deleted, form>>

Remove(q, i) == [j \in 1..(Len(q) - 1) |-> IF j < i THEN q[j] ELSE q[j + 1]]

(* the rest of the callback, after getDoc: the consultant-join write, which is
   not in a try block *)
consultantJoin(u) ==
  \E i \in DOMAIN cb[u] :
    /\ cb' = [cb EXCEPT ![u] = Remove(cb[u], i)]
    /\ \/ /\ cb[u][i] \notin deleted
          /\ sessions' = [sessions EXCEPT ![cb[u][i]].consultantId = u,
                                          ![cb[u][i]].status = "in-progress"]
          /\ toast' = NoToast
       \/ /\ toast' = Unhandled(u)
          /\ UNCHANGED sessions
    /\ UNCHANGED <<tickets, view, list, edit, acc, live, msgs, endChat, edits>>
    /\ UNCHANGED <<chatVars, redirected, deleted, form>>

(* one step of the session subscription of u: a suspended callback resumes, or
   the next snapshot is delivered (at most MaxPending callbacks are suspended) *)
sessionCallback(u) ==
  IF Len(cb[u]) >= MaxPending THEN consultantJoin(u) ELSE sessionSnapshot(u)

(* a plausible slip: the closing notice is issued whatever the try block did *)
endChatCatchAsSuccess(u) == Shown(u, "Chat Ended!")

(* the toast of the catch block of handleEndChat *)
endChatCatch(u) == Shown(u, "Error")

(* handleEndChat up to the answer of the session update *)
handleEndChat(u) ==
  /\ view[u].name = "live-chat"
  /\ live[u] # NoSession
  /\ live[u].status # "closed"
  /\ endChat[u].pc = "idle"
  /\ IF currentUserRole(u) # "admin"
     THEN /\ toast' = Shown(u, "Permission Denied")
          /\ UNCHANGED <<sessions, endChat>>
     ELSE \/ /\ live[u].id \notin deleted
             /\ sessions' = [sessions EXCEPT ![live[u].id].status = "closed"]
             /\ endChat' = [endChat EXCEPT ![u] =
                              [pc |-> "resolve", id |-> live[u].id,
                               ticketId |-> live[u].ticketId]]
             /\ toast' = NoToast
          \/ /\ toast' = endChatCatch(u)
             /\ UNCHANGED <<sessions, endChat>>
  /\ UNCHANGED <<tickets, view, list, edit, acc, live, msgs, cb, edits>>
  /\ UNCHANGED <<chatVars, redirected, deleted, form>>

(* the ticket update of handleEndChat, the success toast and the navigation *)
endChatResolve(u) ==
  /\ endChat[u].pc = "resolve"
  /\ endChat' = [endChat EXCEPT ![u] = EndIdle]
  /\ \/ /\ tickets' = IF endChat[u].ticketId # None
                      THEN [tickets EXCEPT ![endChat[u].ticketId].status = "resolved"]
                      ELSE tickets
        /\ toast' = Shown(u, "Chat Ended!")
        /\ onNavigateToView(u, Home)
     \/ /\ endChat[u].ticketId # None
        /\ toast' = endChatCatch(u)
        /\ UNCHANGED <<tickets, view, list, edit, live, msgs>>
  /\ UNCHANGED <<sessions, acc, cb, edits>>
  /\ UNCHANGED <<chatVars, redirected, deleted, form>>

(* a plausible slip: the query asks for the newest message first *)
messagesQueryDesc(s) ==
  SortSeq(messages[s], LAMBDA x, y : x.timestamp > y.timestamp)

(* query(messagesCollectionRef, orderBy('timestamp', 'asc')) on the session s *)
messagesQuery(s) ==
  SortSeq(messages[s], LAMBDA x, y : x.timestamp < y.timestamp)

(* the callback of onSnapshot of the messages query: setMessages(msgs) *)
messagesSnapshot(u) ==
  /\ view[u].name = "live-chat"
  /\ live[u] # NoSession
  /\ msgs[u] # messagesQuery(live[u].id)
  /\ msgs' = [msgs EXCEPT ![u] = messagesQuery(live[u].id)]
  /\ toast' = NoToast
  /\ UNCHANGED <<tickets, sessions, view, list, edit, acc, live, cb, endChat, edits>>
  /\ UNCHANGED <<chatVars, redirected, deleted, form>>

(* a plausible slip: the message is signed with the identity of the consultant
   of the session, whoever sends it *)
messageDataAsConsultant(u) ==
  [senderId |-> live[u].consultantId, senderRole |-> "admin",
   timestamp |-> Len(messages[live[u].id]) + 1]

(* messageData; serverTimestamp() is the time of the commit, here the rank of
   the commit among those of the session *)
messageData(u) ==
  [senderId |-> u, senderRole |-> currentUserRole(u),
   timestamp |-> Len(messages[live[u].id]) + 1]

(* handleSendMessage up to the answer of addDoc.  The form is enabled when the
   loaded session is not closed and isLoading is false; the messages snapshot
   that follows the addDoc sets isLoading back to false. *)
handleSendMessage(u) ==
  /\ view[u].name = "live-chat"
  /\ live[u] # NoSession
  /\ live[u].status # "closed"
  /\ send[u].pc = "idle"
  /\ endChat[u].pc = "idle"
  /\ Len(messages[live[u].id]) < MaxMessages
  /\ \/ /\ messages' = [messages EXCEPT ![live[u].id] = Append(@, messageData(u))]
        /\ send' = [send EXCEPT ![u] = [pc |-> "touch", id |-> live[u].id]]
        /\ toast' = NoToast
     \/ /\ toast' = Shown(u, "Error")
        /\ UNCHANGED <<messages, send>>
  /\ UNCHANGED <<tickets, sessions, view, list, edit, acc, live, msgs, cb, endChat, edits,
                 lastMessageAt, redirected, deleted, form>>

(* updateDoc(sessionRef, {lastMessageAt: serverTimestamp()}) and the catch *)
sendTouch(u) ==
  /\ send[u].pc = "touch"
  /\ send' = [send EXCEPT ![u] = SendIdle]
  /\ \/ /\ send[u].id \notin deleted
        /\ lastMessageAt' = [lastMessageAt EXCEPT ![send[u].id] = Len(messages[send[u].id])]
        /\ toast' = NoToast
     \/ /\ toast' = Shown(u, "Error")
        /\ UNCHANGED lastMessageAt
  /\ UNCHANGED <<tickets, sessions, view, list, edit, acc, live, msgs, cb, endChat, edits,
                 messages, redirected, deleted, form>>

(* ------------------------------------------------ customer: SupportTickets *)

(* a plausible slip: the effect looks for any ticket in progress *)
anyTicketInProgress(c, l) ==
  LET any == {t \in DOMAIN l : l[t].status = "in-progress" /\ l[t].liveChatId # None}
  IN IF any = {} THEN None ELSE CHOOSE t \in any : \A x \in any : x <= t

(* tickets.find(...) of the auto-redirect effect; the list is newest first *)
myTicketInProgress(c, l) ==
  LET mine == {t \in DOMAIN l : /\ l[t].customerId = c
                                /\ l[t].status = "in-progress"
                                /\ l[t].liveChatId # None}
  IN IF mine = {} THEN None ELSE CHOOSE t \in mine : \A x \in mine : x <= t

(* a plausible slip: the list is fetched once, when the view is mounted *)
ticketsFetchedOnce(c) == list[c] = <<>> /\ tickets # <<>>

(* the subscription of the mounted list has a snapshot to deliver: the
   collection differs from what the list holds *)
ticketsSnapshotPending(c) == list[c] # tickets

(* onSnapshot of the tickets query, and the auto-redirect effect that runs on
   the new tickets state *)
customerTicketsSnapshot(c) ==
  /\ c \in Customers
  /\ view[c] = TicketsView
  /\ ticketsSnapshotPending(c)
  /\ LET t == myTicketInProgress(c, tickets) IN
     IF t # None
     THEN /\ toast' = Shown(c, "Live Chat Ready!")
          /\ onNavigateToView(c, LiveChatView(tickets[t].liveChatId))
          /\ redirected' = [redirected EXCEPT ![c] = @ \cup {t}]
     ELSE /\ list' = [list EXCEPT ![c] = tickets]
          /\ toast' = NoToast
          /\ UNCHANGED <<view, edit, live, msgs, redirected>>
  /\ UNCHANGED <<tickets, sessions, acc, cb, endChat, edits>>
  /\ UNCHANGED <<chatVars, deleted, form>>

(* the Join Live Chat button of an in-progress row of the customer's list *)
joinLiveChat(c, t) ==
  /\ c \in Customers
  /\ view[c] = TicketsView
  /\ t \in DOMAIN list[c]
  /\ list[c][t].status = "in-progress"
  /\ list[c][t].liveChatId # None
  /\ onNavigateToView(c, LiveChatView(list[c][t].liveChatId))
  /\ toast' = NoToast
  /\ UNCHANGED <<tickets, sessions, acc, cb, endChat, edits>>
  /\ UNCHANGED <<chatVars, redirected, deleted, form>>

(* ------------------------------------------------------------ the store *)

(* the document liveChats/<s> is removed by who administers the store: the
   portal itself never deletes a session *)
liveChatRemoved(s) ==
  /\ s \in DOMAIN sessions
  /\ s \notin deleted
  /\ deleted' = deleted \cup {s}
  /\ toast' = NoToast
  /\ UNCHANGED <<tickets, sessions, view, list, edit, acc, live, msgs, cb, endChat, edits,
                 chatVars, redirected, form>>

(* ------------------------------------------------------------------ spec *)

(* the steps of the browsers in B *)
Browse(B) ==
  \/ \E u \in B, target \in {Home, TicketsView} : onViewChange(u, target)
  \/ \E u \in B : sessionCallback(u)
  \/ \E u \in B : handleEndChat(u)
  \/ \E u \in B : endChatResolve(u)

(* the message form of the browsers in B *)
Chat(B) ==
  \/ \E u \in B : handleSendMessage(u)
  \/ \E u \in B : sendTouch(u)

(* the message list of the browsers in B *)
Messages(B) ==
  \/ \E u \in B : messagesSnapshot(u)

(* the ticket list of the admin portal and its Join Chat button *)
Watch ==
  \/ \E a \in Admins : ticketsSnapshot(a)
  \/ \E a \in Admins, t \in TicketIds : joinChat(a, t)

(* the steps of the ticket list of the admin portal *)
Manage ==
  \/ Watch
  \/ \E a \in Admins, t \in TicketIds : handleEditClick(a, t)
  \/ \E a \in Admins, i \in DOMAIN TicketStatus : handleSaveEdit(a, TicketStatus[i])

(* Accept, with no condition on the admins that are inside it *)
Accept ==
  \/ \E a \in Admins, t \in TicketIds : acceptQuery(a, t)
  \/ \E a \in Admins : acceptCreate(a)
  \/ \E a \in Admins : acceptUpdate(a)

(* the customers in B create tickets *)
Create(B) ==
  \/ \E c \in B : aiSuggestsTicket(c)
  \/ \E c \in B : cancelTicketForm(c)
  \/ \E c \in B : createTicketConfirmed(c)

(* the ticket list of the customers in B *)
MyTickets(B) ==
  \/ \E c \in B : customerTicketsSnapshot(c)
  \/ \E c \in B, t \in TicketIds : joinLiveChat(c, t)

(* The hand-off: customers create tickets, the admins work on them.  The ticket
   list and the live chat of a customer only read the two collections, so the
   customers' browsers stay on their first view here. *)
HandOffNext == Create(Watched) \/ Browse(Admins) \/ Manage \/ Accept

HandOff == Init /\ [][HandOffNext]_vars

(* Accept, where an admin starts it only when no admin is inside it *)
AcceptInSuccession ==
  \/ \E a \in Admins, t \in TicketIds :
       (\A b \in Admins : acc[b].pc = "idle") /\ acceptQuery(a, t)
  \/ \E a \in Admins : acceptCreate(a)
  \/ \E a \in Admins : acceptUpdate(a)

HandOffInSuccessionNext ==
  Create(Watched) \/ Browse(Admins) \/ Manage \/ AcceptInSuccession

HandOffInSuccession == Init /\ [][HandOffInSuccessionNext]_vars

(* The hand-off in succession, no ticket edited, in a store from which sessions
   are removed *)
RemovalNext ==
  \/ Create(Watched)
  \/ Browse(Admins)
  \/ Watch
  \/ AcceptInSuccession
  \/ \E s \in 1..MaxSessions : liveChatRemoved(s)

Removal == Init /\ [][RemovalNext]_vars

(* The customer's ticket list and chat next to the admins' work on the tickets,
   one Accept after another, no ticket edited and no message sent. *)
ClosingNext ==
  \/ Create(Customers)
  \/ Watch
  \/ AcceptInSuccession
  \/ Browse(Admins \cup Watched)
  \/ MyTickets(Watched)

Closing == Init /\ [][ClosingNext]_vars

(* The same steps, where a snapshot that the store has for a mounted list is
   delivered in the end: the listener of onSnapshot stays attached for as long
   as the list is mounted. *)
ResolveNext == ClosingNext

Resolve ==
  /\ Init /\ [][ResolveNext]_vars
  /\ \A c \in Watched : WF_vars(customerTicketsSnapshot(c))

(* The live chat: tickets are created and accepted, one Accept after another,
   and the customer and the admins use the ticket lists and the chat; no ticket
   is edited. *)
LiveChatNext ==
  \/ Create(Customers)
  \/ Watch
  \/ AcceptInSuccession
  \/ Browse(Admins \cup Watched)
  \/ Chat(Admins \cup Watched)
  \/ MyTickets(Watched)

LiveChat == Init /\ [][LiveChatNext]_vars

(* The conversation: the tickets of one customer are accepted, one Accept after
   another, and the customer and the admins write and read the messages of the
   chats; no chat is ended. *)
ConversationNext ==
  \/ Create(Watched)
  \/ \E a \in Admins : ticketsSnapshot(a)
  \/ AcceptInSuccession
  \/ \E u \in Admins \cup Watched, target \in {Home, TicketsView} : onViewChange(u, target)
  \/ \E u \in Admins \cup Watched : sessionCallback(u)
  \/ Chat(Admins \cup Watched)
  \/ Messages(Admins \cup Watched)
  \/ \E c \in Watched : customerTicketsSnapshot(c)

Conversation == Init /\ [][ConversationNext]_vars

(* The redirect to the live chat: the tickets of every customer are created,
   edited, accepted one Accept after another, and their chats ended, while one
   customer uses the ticket list and the chat; no message is sent. *)
RedirectNext ==
  \/ Create(Customers)
  \/ Manage
  \/ AcceptInSuccession
  \/ Browse(Admins \cup Watched)
  \/ MyTickets(Watched)

Redirect == Init /\ [][RedirectNext]_vars

(* the whole portal *)
Next ==
  \/ Create(Customers)
  \/ Manage
  \/ Accept
  \/ Browse(Users)
  \/ Chat(Users)
  \/ Messages(Users)
  \/ MyTickets(Customers)
  \/ \E s \in 1..MaxSessions : liveChatRemoved(s)

Spec == Init /\ [][Next]_vars

(* ---------------------------------------------------------------- claims *)

TicketRank(st) == CHOOSE i \in DOMAIN TicketStatus : TicketStatus[i] = st
SessionRank(st) == CHOOSE i \in DOMAIN SessionStatus : SessionStatus[i] = st

(* the session documents whose ticketId is t *)
SessionsOf(t) == {s \in DOMAIN sessions : sessions[s].ticketId = t}

NoAcceptRunning == \A a \in Admins : acc[a].pc = "idle"

(* u is neither the customer nor the consultant of session s *)
NotParticipant(u, s) == sessions[s].customerId # u /\ sessions[s].consultantId # u

(* C1: once no Accept is running, a ticket that an Accept has attached to a
   session has exactly one session with its ticketId, and its liveChatId is
   that session. *)
C1_ExactlyOneSession ==
  NoAcceptRunning =>
    \A t \in DOMAIN tickets :
      tickets[t].liveChatId # None =>
        /\ Cardinality(SessionsOf(t)) = 1
        /\ tickets[t].liveChatId \in SessionsOf(t)

(* C2: no step moves the status of a ticket backward in
   pending, in-progress, resolved. *)
C2_TicketStatusMonotonic ==
  [][\A t \in DOMAIN tickets :
       TicketRank(tickets'[t].status) >= TicketRank(tickets[t].status)]_vars

(* C3: no step moves the status of a session backward in
   open, in-progress, closed; in particular nothing is written over closed. *)
C3_SessionStatusMonotonic ==
  [][\A s \in DOMAIN sessions :
       SessionRank(sessions'[s].status) >= SessionRank(sessions[s].status)]_vars

(* C3 witness: a session is closed in the store while the live chat of an admin
   still holds the snapshot in which it was open, the state in which a late
   write of that view would land on a closed session. *)
C3_ClosedUnderOpenSnapshot ==
  \E a \in Admins, s \in DOMAIN sessions :
    sessions[s].status = "closed" /\ live[a].id = s /\ live[a].status = "open"

(* C4: a user who is neither customer nor consultant of a session never holds
   its data in liveChatSession (what the messages subscription, the send and
   the end of the chat need), has no End chat and no callback in flight on it,
   and each snapshot of it delivered to that user's live chat shows Access
   Denied, leaves the portal and writes nothing. *)
C4_AccessControl ==
  [][\A u \in Users, s \in DOMAIN sessions :
       NotParticipant(u, s) =>
         /\ live[u].id # s /\ live'[u].id # s
         /\ endChat[u].id # s /\ endChat'[u].id # s
         /\ \A i \in DOMAIN cb[u] : cb[u][i] # s
         /\ (view[u] = LiveChatView(s) /\ sessionCallback(u)) =>
              /\ toast' = Shown(u, "Access Denied")
              /\ view'[u] = NotFoundRoute
              /\ live'[u] = NoSession
              /\ sessions' = sessions /\ tickets' = tickets]_vars

(* C4 witness: an admin has opened the session of another admin and has just
   been turned away. *)
C4_AdminTurnedAway ==
  \E a \in Admins :
    /\ toast = Shown(a, "Access Denied")
    /\ view[a] = NotFoundRoute
    /\ \E s \in DOMAIN sessions : NotParticipant(a, s)

(* an Accept has completed on ticket t: it is in progress and attached to a
   session of its own *)
Accepted(t) ==
  /\ tickets[t].status = "in-progress"
  /\ tickets[t].liveChatId \in SessionsOf(t)

(* C5: when Accept invocations follow one another, every step of an Accept on a
   ticket on which an Accept has completed leaves the ticket as it is and the
   sessions of the ticket at exactly one. *)
C5_IdempotentAccept ==
  [][\A a \in Admins, t \in DOMAIN tickets :
       (acc'[a] # acc[a] /\ t \in {acc[a].ticket, acc'[a].ticket} /\ Accepted(t)) =>
         /\ tickets'[t] = tickets[t]
         /\ Cardinality(SessionsOf(t)) = 1
         /\ Cardinality(SessionsOf(t)') = 1]_vars

(* C5 witness: a second Accept has found the session of the first and is about
   to update the ticket that the first one accepted. *)
C5_SecondAcceptAtUpdate ==
  \E a \in Admins :
    /\ acc[a].pc = "update" /\ ~acc[a].empty
    /\ Accepted(acc[a].ticket)
    /\ sessions[acc[a].liveChatId].consultantId # a

(* the step is the creation of session s by admin a *)
Creates(a, s) ==
  /\ acc[a].pc = "create"
  /\ acc'[a].pc = "update" /\ acc'[a].liveChatId = s
  /\ s \notin DOMAIN sessions
  /\ s \in DOMAIN sessions'

(* C6 as stated: the session Accept creates is open and unstaffed, for the
   ticket and its customer. *)
C6_CreatedUnstaffed ==
  [][\A a \in Admins, s \in 1..MaxSessions :
       Creates(a, s) =>
         /\ sessions'[s].status = "open"
         /\ sessions'[s].consultantId = NoUser
         /\ sessions'[s].ticketId = acc[a].ticket
         /\ sessions'[s].customerId = tickets[acc[a].ticket].customerId]_vars

(* C6 amended: the session Accept creates is open, for the ticket and its
   customer, and its consultant is the accepting admin. *)
C6_CreatedWithConsultant ==
  [][\A a \in Admins, s \in 1..MaxSessions :
       Creates(a, s) =>
         /\ sessions'[s].status = "open"
         /\ sessions'[s].consultantId = a
         /\ sessions'[s].ticketId = acc[a].ticket
         /\ sessions'[s].customerId = tickets[acc[a].ticket].customerId]_vars

(* C6 witness: an Accept that found no session has created one. *)
C6_SessionCreated ==
  \E a \in Admins :
    /\ acc[a].pc = "update" /\ acc[a].empty
    /\ acc[a].liveChatId \in SessionsOf(acc[a].ticket)

(* C7: once an admin has opened a session, its snapshot loaded and its callback
   run to the end, the session is in progress (or closed since) with that admin
   as consultant. *)
C7_OpenedSessionInProgress ==
  \A a \in Admins :
    (live[a] # NoSession /\ cb[a] = <<>>) =>
      /\ sessions[live[a].id].status # "open"
      /\ sessions[live[a].id].consultantId = a

(* C8: the session an Accept navigates its admin to, on the reuse path as on
   the create path, is one the access check of the live chat admits that admin
   to. *)
C8_ReuseAdmits ==
  [][\A b \in Admins :
       (/\ acc[b].pc = "update" /\ acc'[b].pc = "idle"
        /\ tickets'[acc[b].ticket].liveChatId = acc[b].liveChatId
        /\ view'[b] = LiveChatView(acc[b].liveChatId))
       => ~accessDenied(b, sessionData(acc[b].liveChatId))]_vars

(* C9: an Accept whose query finds a session creates none and goes on to the
   ticket update with a session of that ticket; the ticket update, when it
   succeeds, leaves the ticket in progress with that session as liveChatId, on
   the reuse path as on the create path. *)
C9_ReuseRepairsTicket ==
  [][\A a \in Admins :
       /\ (acc[a].pc = "idle" /\ acc'[a].pc # "idle" /\ SessionsOf(acc'[a].ticket) # {}) =>
            /\ acc'[a].pc = "update"
            /\ acc'[a].liveChatId \in SessionsOf(acc'[a].ticket)
            /\ sessions' = sessions
       /\ (acc[a].pc = "update" /\ acc'[a].pc = "idle" /\ toast' # Shown(a, "Error")) =>
            /\ acc[a].liveChatId \in SessionsOf(acc[a].ticket)
            /\ tickets'[acc[a].ticket].status = "in-progress"
            /\ tickets'[acc[a].ticket].liveChatId = acc[a].liveChatId
            /\ sessions' = sessions]_vars

(* C9 witness: after an Accept that created a session and failed to update the
   ticket (the ticket is pending without liveChatId, no Accept is running
   beside this one), the next Accept has found the orphan session. *)
C9_OrphanFound ==
  \E a \in Admins :
    /\ acc[a].pc = "update" /\ ~acc[a].empty
    /\ \A b \in Admins \ {a} : acc[b].pc = "idle"
    /\ tickets[acc[a].ticket].status = "pending"
    /\ tickets[acc[a].ticket].liveChatId = None

(* C10: the session the find step of Accept reuses is not closed. *)
C10_ReusedNotClosed ==
  [][\A a \in Admins :
       (acc[a].pc = "idle" /\ acc'[a].pc = "update") =>
         sessions[acc'[a].liveChatId].status # "closed"]_vars

(* the step is the ticket update of an Accept of a, committing *)
AcceptWrites(a) ==
  /\ acc[a].pc = "update" /\ acc'[a].pc = "idle"
  /\ toast' # Shown(a, "Error")

(* C11: the ticket update of an Accept commits only on a ticket that is pending
   in the store. *)
C11_AcceptOnlyPending ==
  [][\A a \in Admins :
       AcceptWrites(a) => tickets[acc[a].ticket].status = "pending"]_vars

(* C12: a resolved ticket with a liveChatId refers to a closed session (what
   remains true only if a ticket is resolved by nothing but the ticket update
   of an End chat that has closed the session). *)
C12_ResolvedImpliesClosed ==
  \A t \in DOMAIN tickets :
    (tickets[t].status = "resolved" /\ tickets[t].liveChatId # None) =>
      sessions[tickets[t].liveChatId].status = "closed"

(* C13: a ticket in progress has a liveChatId, and a ticket with a liveChatId
   is in progress or resolved. *)
C13_SessionIdIffAccepted ==
  \A t \in DOMAIN tickets :
    /\ tickets[t].status = "in-progress" => tickets[t].liveChatId # None
    /\ tickets[t].liveChatId # None => tickets[t].status \in {"in-progress", "resolved"}

(* C14: the consultantId of a session, once not null, is never written again
   with another value or with null, whatever snapshots are delivered and
   whichever admins open the session. *)
C14_ConsultantAssignedOnce ==
  [][\A s \in DOMAIN sessions :
       sessions[s].consultantId # NoUser =>
         sessions'[s].consultantId = sessions[s].consultantId]_vars

(* C14 witness: the consultant of a session has it loaded in the live chat, and
   another admin has opened the same session and has just been turned away. *)
C14_SecondAdminOpened ==
  \E a \in Admins, b \in Admins, s \in DOMAIN sessions :
    /\ a # b
    /\ sessions[s].consultantId = a
    /\ live[a].id = s
    /\ toast = Shown(b, "Access Denied")

(* C15: a step appends a message to a session, or writes its lastMessageAt,
   only if the session is not closed in the store. *)
C15_NoMessageAfterClose ==
  [][\A s \in DOMAIN sessions :
       (messages'[s] # messages[s] \/ lastMessageAt'[s] # lastMessageAt[s]) =>
         sessions[s].status # "closed"]_vars

(* C16: an End chat goes past its guards only for an admin whose loaded session
   is not closed; its first write closes the session and leaves the tickets
   alone; its second write comes after that one, when the session is closed,
   and makes resolved the ticket of the session and no other; an End chat of a
   customer writes nothing and shows Permission Denied. *)
C16_EndChatOrder ==
  [][\A u \in Users :
       /\ (endChat[u].pc = "idle" /\ endChat'[u].pc # "idle") =>
            /\ u \in Admins
            /\ live[u] # NoSession /\ live[u].status # "closed"
            /\ endChat'[u].pc = "resolve" /\ endChat'[u].id = live[u].id
            /\ sessions' = [sessions EXCEPT ![live[u].id].status = "closed"]
            /\ tickets' = tickets
       /\ (endChat[u].pc = "resolve" /\ endChat'[u].pc = "idle") =>
            /\ sessions[endChat[u].id].status = "closed"
            /\ sessions' = sessions
            /\ \/ tickets' = tickets
               \/ /\ endChat[u].ticketId = sessions[endChat[u].id].ticketId
                  /\ tickets' = [tickets EXCEPT ![endChat[u].ticketId].status = "resolved"]
       /\ toast' = Shown(u, "Permission Denied") =>
            /\ u \notin Admins
            /\ sessions' = sessions /\ tickets' = tickets /\ endChat' = endChat
       /\ u \notin Admins => endChat'[u] = EndIdle]_vars

(* C16 witness: an End chat is between its two writes: the session is closed and
   its ticket is still in progress. *)
C16_BetweenTheWrites ==
  \E a \in Admins :
    /\ endChat[a].pc = "resolve"
    /\ sessions[endChat[a].id].status = "closed"
    /\ tickets[endChat[a].ticketId].status = "in-progress"

(* C17: when an End chat ends with the session closed and the ticket not
   resolved, the session stays closed, the ticket is as it was, the toast is
   the failure notice, and the view of the admin is where it was; the closing
   notice is shown only when the ticket is resolved. *)
C17_PartialFailureSurfaced ==
  [][\A u \in Users :
       /\ (/\ endChat[u].pc = "resolve" /\ endChat'[u].pc = "idle"
           /\ tickets'[endChat[u].ticketId].status # "resolved") =>
            /\ sessions'[endChat[u].id].status = "closed"
            /\ tickets' = tickets
            /\ toast' = Shown(u, "Error")
            /\ view'[u] = view[u] /\ live'[u] = live[u]
       /\ toast' = Shown(u, "Chat Ended!") =>
            /\ endChat[u].pc = "resolve"
            /\ sessions'[endChat[u].id].status = "closed"
            /\ tickets'[endChat[u].ticketId].status = "resolved"]_vars

(* C17 witness: after the failure the admin is still in the chat of the closed
   session, whose ticket is in progress, with the failure notice. *)
C17_ClosedButNotResolved ==
  \E a \in Admins, s \in DOMAIN sessions :
    /\ toast = Shown(a, "Error")
    /\ endChat[a] = EndIdle /\ send[a] = SendIdle
    /\ view[a] = LiveChatView(s)
    /\ sessions[s].status = "closed"
    /\ tickets[sessions[s].ticketId].status = "in-progress"
    /\ Len(messages[s]) = 0

(* C18: while a session is closed and its ticket is not resolved (what the
   failure of the second write of End chat leaves), the consultant in its chat,
   with no End chat running, can invoke End chat: the loaded session passes the
   guard of handleEndChat, so that a retry can resolve the ticket. *)
C18_RetryAvailable ==
  \A a \in Admins, s \in DOMAIN sessions :
    (/\ view[a] = LiveChatView(s) /\ live[a].id = s
     /\ endChat[a] = EndIdle
     /\ sessions[s].consultantId = a
     /\ sessions[s].status = "closed"
     /\ tickets[sessions[s].ticketId].status # "resolved")
    => live[a].status # "closed"

(* the ticket t, as the list l shows it, is a ticket of c that is in progress
   and has a liveChatId *)
MineInChat(c, l, t) ==
  l[t].customerId = c /\ l[t].status = "in-progress" /\ l[t].liveChatId # None

(* the step is an automatic navigation of the ticket list of c *)
AutoRedirect(c) == toast' = Shown(c, "Live Chat Ready!")

(* C19: the ticket list of a customer navigates by itself only to the session
   of a ticket of that customer that is in progress and has a liveChatId, and
   it never keeps a snapshot with such a ticket without having navigated. *)
C19_AutoRedirect ==
  [][\A c \in Customers :
       /\ AutoRedirect(c) =>
            /\ view[c] = TicketsView
            /\ \E t \in DOMAIN tickets :
                 /\ MineInChat(c, tickets, t)
                 /\ view'[c] = LiveChatView(tickets[t].liveChatId)
       /\ view'[c] = TicketsView =>
            \A t \in DOMAIN list'[c] : ~MineInChat(c, list'[c], t)]_vars

(* C19 witness: the ticket list of a customer has just navigated to the session
   of the customer's ticket. *)
C19_Redirected ==
  \E c \in Customers, t \in DOMAIN tickets :
    /\ toast = Shown(c, "Live Chat Ready!")
    /\ MineInChat(c, tickets, t)
    /\ view[c] = LiveChatView(tickets[t].liveChatId)

(* C20: the automatic navigation is issued once for each time a ticket enters
   in-progress, and never from a browser that shows the live chat. *)
C20_RedirectOnce ==
  [][\A c \in Customers :
       AutoRedirect(c) =>
         /\ myTicketInProgress(c, tickets) \notin redirected[c]
         /\ view[c].name # "live-chat"]_vars

(* C21: when the session document is gone at the time a snapshot callback of a
   live-chat view runs, the callback shows "Chat Not Found", leaves the chat
   (the portal is replaced, the loaded session dropped) and writes nothing to
   the two collections or to the messages *)
C21_MissingSessionTurnedAway ==
  [][\A u \in Users :
       (view[u].name = "live-chat" /\ view[u].id \in deleted /\ sessionSnapshot(u)) =>
         /\ toast' = Shown(u, "Chat Not Found")
         /\ view'[u] = NotFoundRoute
         /\ live'[u] = NoSession
         /\ UNCHANGED <<tickets, sessions, messages, lastMessageAt, deleted>>]_vars

(* a view was turned away from a session that had been removed *)
C21_ChatNotFound ==
  \E u \in Users : toast = Shown(u, "Chat Not Found") /\ view[u] = NotFoundRoute

(* C22: no step of Accept, of the consultant join, of the message form or of
   End chat ends in a rejection that escapes its handler: every failing store
   call is caught and shown as a notice *)
C22_FailuresCaught == \A u \in Users : toast # Unhandled(u)

(* C23: the ticket collection grows only in a step in which a customer whose
   ticket form is open confirms it, by one ticket that is pending, has no
   session and belongs to that customer; the step in which the assistant's
   create_ticket answer opens the form leaves the collection as it is *)
C23_CreatedOnConfirmOnly ==
  [][/\ tickets' # tickets /\ Len(tickets') # Len(tickets) =>
          \E c \in Customers :
            /\ form[c] /\ ~form'[c] /\ view[c] = Home
            /\ tickets' = Append(tickets, [status |-> "pending", liveChatId |-> None,
                                           customerId |-> c])
     /\ \A c \in Customers : (~form[c] /\ form'[c]) => tickets' = tickets]_vars

(* a customer has confirmed the form and the ticket is in the store, another
   customer has a suggestion open that created nothing *)
C23_ConfirmedAndSuggested ==
  \E c, d \in Customers :
    /\ c # d
    /\ Len(tickets) = 1 /\ tickets[1].customerId = c /\ tickets[1].status = "pending"
    /\ ~form[c]
    /\ form[d]

(* the ticket t of the store is resolved *)
Resolved(t) == t \in DOMAIN tickets /\ tickets[t].status = "resolved"

(* C24: once End chat has closed the session and resolved its ticket, a ticket
   list that the customer has mounted comes to show the ticket as resolved,
   unless the customer leaves the list or the ticket is taken up again first;
   the customer's browser writes nothing for it *)
C24_ResolvedReachesCustomer ==
  \A c \in Watched, t \in TicketIds :
    (/\ view[c] = TicketsView
     /\ Resolved(t)
     /\ tickets[t].customerId = c
     /\ \E s \in SessionsOf(t) : sessions[s].status = "closed")
    ~> (\/ view[c] # TicketsView
        \/ ~Resolved(t)
        \/ t \in DOMAIN list[c] /\ list[c][t].status = "resolved")

(* the customer's list shows the ticket resolved that End chat resolved *)
C24_ShownResolved ==
  \E c \in Watched, t \in TicketIds :
    /\ view[c] = TicketsView
    /\ Resolved(t) /\ tickets[t].customerId = c
    /\ \E s \in SessionsOf(t) : sessions[s].status = "closed"
    /\ t \in DOMAIN list[c] /\ list[c][t].status = "resolved"

(* C25: whatever the order in which the customer and the consultant append,
   the list a live-chat view holds after a step has non-decreasing timestamps,
   and a step keeps every message of the store as it is, at its place *)
C25_OrderedAppendOnly ==
  [][/\ \A u \in Users : \A i, j \in DOMAIN msgs'[u] :
          i < j => msgs'[u][i].timestamp <= msgs'[u][j].timestamp
     /\ \A s \in DOMAIN messages :
          /\ Len(messages'[s]) >= Len(messages[s])
          /\ \A i \in DOMAIN messages[s] : messages'[s][i] = messages[s][i]]_vars

(* a view holds two messages, one of the customer and one of the consultant *)
C25_BothSidesDelivered ==
  \E u \in Users :
    /\ Len(msgs[u]) = 2
    /\ {msgs[u][1].senderRole, msgs[u][2].senderRole} = {"customer", "admin"}

(* C26: when an Accept starts only after the Accepts before it have returned,
   a ticket never has more than one session, the closed ones counted *)
C26_OneSessionEver ==
  \A t \in DOMAIN tickets : Cardinality(SessionsOf(t)) <= 1

(* a ticket was set back to pending after its chat was ended, and an Accept has
   found the closed session for it *)
C26_ClosedSessionFound ==
  \E a \in Admins :
    /\ acc[a].pc = "update"
    /\ ~acc[a].empty
    /\ sessions[acc[a].liveChatId].status = "closed"
    /\ tickets[acc[a].ticket].status = "pending"
    /\ Cardinality(SessionsOf(acc[a].ticket)) = 1

(* C27: every session carries the admin that created it as its consultant, so
   no snapshot callback is suspended before a join write, and a step moves the
   status of a session only from open to closed; in-progress is never stored *)
C27_OpenUntilClosed ==
  [][/\ \A s \in DOMAIN sessions' :
          /\ sessions'[s].consultantId \in Admins
          /\ sessions'[s].status \in {"open", "closed"}
     /\ \A u \in Users : cb'[u] = <<>>
     /\ \A s \in DOMAIN sessions :
          sessions'[s].status # sessions[s].status =>
            /\ sessions[s].status = "open" /\ sessions'[s].status = "closed"
            /\ \E a \in Admins : endChat'[a].pc = "resolve" /\ endChat'[a].id = s]_vars

(* the admin that created a session has received its snapshot, the join guard
   was false on it, and the session is still open *)
C27_LoadedOpenByConsultant ==
  \E a \in Admins, s \in DOMAIN sessions :
    /\ sessions[s].status = "open"
    /\ sessions[s].consultantId = a
    /\ view[a] = LiveChatView(s)
    /\ live[a] = sessionData(s)

(* C28: a step of Accept navigates only when it is the successful ticket
   update, the session it navigates to being in the store; a failed creation
   leaves the ticket and the view as they are; a failed ticket update leaves
   the view and the sessions as they are *)
C28_AcceptNavigatesLast ==
  [][\A a \in Admins :
       acc'[a] # acc[a] =>
         /\ view'[a] # view[a] =>
              /\ acc[a].pc = "update"
              /\ acc[a].liveChatId \in DOMAIN sessions
              /\ view'[a] = LiveChatView(acc[a].liveChatId)
              /\ tickets'[acc[a].ticket].status = "in-progress"
              /\ tickets'[acc[a].ticket].liveChatId = acc[a].liveChatId
         /\ (acc[a].pc = "create" /\ acc'[a].pc = "idle") =>
              /\ toast' = Shown(a, "Error")
              /\ UNCHANGED <<tickets, sessions, view>>
         /\ (acc[a].pc = "update" /\ toast' = Shown(a, "Error")) =>
              UNCHANGED <<tickets, sessions, view>>]_vars

(* an Accept has created its session and failed to update the ticket: the
   admin is still on the ticket list, the session is in the store *)
C28_UpdateFailedSessionLeft ==
  \E a \in Admins, s \in DOMAIN sessions :
    /\ toast = Shown(a, "Error")
    /\ acc[a].pc = "idle"
    /\ view[a] = TicketsView
    /\ sessions[s].consultantId = a
    /\ tickets[sessions[s].ticketId].status = "pending"
    /\ tickets[sessions[s].ticketId].liveChatId = None

(* C29: a save that writes the status the dialog took from the row when it was
   opened (the selection was not changed) leaves the status of the ticket in
   the store as it is *)
C29_SaveKeepsStatus ==
  [][\A a \in Admins :
       (/\ edit[a].open /\ ~edit'[a].open /\ view'[a] = view[a]
        /\ tickets'[edit[a].ticket].status = edit[a].status) =>
         tickets'[edit[a].ticket].status = tickets[edit[a].ticket].status]_vars

(* C30: after every step each stored message of a session has as senderId the
   customer or the consultant of the session and as senderRole the role of
   that user; and a step that appends a message to a session is taken by a user
   whose live-chat view holds that session, loaded past the access check, the
   message carrying that user's uid *)
C30_SentByParticipants ==
  [][\A s \in DOMAIN sessions :
       /\ \A i \in DOMAIN messages'[s] :
            /\ messages'[s][i].senderId \in {sessions'[s].customerId, sessions'[s].consultantId}
            /\ messages'[s][i].senderRole =
                 IF messages'[s][i].senderId \in Admins THEN "admin" ELSE "customer"
       /\ Len(messages'[s]) > Len(messages[s]) =>
            \E u \in Users :
              /\ view[u].name = "live-chat"
              /\ live[u] # NoSession /\ live[u].id = s
              /\ ~NotParticipant(u, s)
              /\ messages'[s][Len(messages'[s])].senderId = u]_vars

(* a session holds a message of its customer and a message of its consultant *)
C30_BothParticipantsStored ==
  \E s \in DOMAIN sessions :
    /\ Len(messages[s]) = 2
    /\ messages[s][1].senderId = sessions[s].customerId
    /\ messages[s][2].senderId = sessions[s].consultantId

====
